---- MODULE Spec2Model ----
(***************************************************************************)
(* Model of lcm_solution.py: the batch driver main, count_sequences,       *)
(* prime_factors and power_mod, as one state machine with an explicit      *)
(* call stack.  Every loop of the source advances one iteration per step.  *)
(* A Python dict is a sequence of <<key, value>> pairs in insertion order. *)
(***************************************************************************)
EXTENDS Integers, Sequences, FiniteSets, TLC

VARIABLES
  pc,            \* label of the next statement to execute
  stack,         \* return labels of the pending calls, innermost first
  MOD,           \* the module global MOD (line 32)
  \* ---- main ----
  input,         \* the lines of standard input, each a sequence of integers
  rd,            \* number of lines of input consumed by input()
  T, idx,        \* number of test cases; iterations of the for loop begun
  main_n, main_y, main_result,
  out,           \* the lines printed so far
  \* ---- count_sequences ----
  cs_n, cs_y, factors, primes, num_primes, divisor_count, total_sequences,
  result, mask, reduced_divisor_count, sequences, ret_cs,
  \* ---- prime_factors ----
  pf_n, pf_d, pf_factors, ret_pf,
  \* ---- power_mod ----
  pm_base, pm_exp, pm_mod, pm_result, ret_pm,
  \* ---- history ----
  cs_calls,      \* calls of count_sequences since the current line was read
  pm_calls,      \* calls of power_mod since count_sequences was entered
  iters,         \* bodies of the mask loop begun since count_sequences was entered
  args           \* arguments of the call the run starts with (<<>> for main)

ctlv  == <<pc, stack>>
mainv == <<input, rd, T, idx, main_n, main_y, main_result, out>>
csv   == <<cs_n, cs_y, factors, primes, num_primes, divisor_count,
           total_sequences, result, mask, reduced_divisor_count, sequences,
           ret_cs>>
pfv   == <<pf_n, pf_d, pf_factors, ret_pf>>
pmv   == <<pm_base, pm_exp, pm_mod, pm_result, ret_pm>>
histv == <<cs_calls, pm_calls, iters>>
vars  == <<ctlv, MOD, mainv, csv, pfv, pmv, histv, args>>

(***************************************************************************)
(* Program constants.                                                      *)
(***************************************************************************)
ModValue  == 1000000007
MaxPrimes == 20
NLimit    == 100000
YLimit    == 1000000000

(***************************************************************************)
(* Arithmetic of the source on unbounded Python integers.                  *)
(***************************************************************************)
RECURSIVE MulMod(_, _, _)
\* (a * b) % m.  The product is formed directly when it fits TLC's
\* 32-bit integers and by doubling otherwise (then a, b < m and 2 * m fits).
MulMod(a, b, m) ==
  IF a = 0 \/ b <= 2147483647 \div a
    THEN (a * b) % m
    ELSE (((2 * MulMod(a, b \div 2, m)) % m) + (IF b % 2 = 1 THEN a ELSE 0)) % m

\* mask & (1 << i) is non-zero
BitSet(m, i) == (m \div (2 ^ i)) % 2 = 1

RECURSIVE PopCount(_)
\* bin(mask).count('1')
PopCount(m) == IF m = 0 THEN 0 ELSE (m % 2) + PopCount(m \div 2)

(***************************************************************************)
(* Python dict as an insertion-ordered sequence of <<key, value>>.         *)
(***************************************************************************)
DictHas(f, k) == \E i \in 1..Len(f) : f[i][1] = k

\* f.get(k, dflt)
DictGet(f, k, dflt) ==
  IF DictHas(f, k) THEN f[CHOOSE i \in 1..Len(f) : f[i][1] = k][2] ELSE dflt

\* f[k] = v
DictPut(f, k, v) ==
  IF DictHas(f, k)
    THEN [i \in 1..Len(f) |-> IF f[i][1] = k THEN <<k, v>> ELSE f[i]]
    ELSE Append(f, <<k, v>>)

\* list(f.keys())
DictKeys(f) == [i \in 1..Len(f) |-> f[i][1]]

\* return: resume the caller at the label on top of the stack
Return == pc' = Head(stack) /\ stack' = Tail(stack)

(***************************************************************************)
(* power_mod(base, exp, mod), lines 49-60.                                 *)
(***************************************************************************)
\* lines 53-54
PmEntry ==
  /\ pc = "pm_entry"
  /\ pm_result' = 1
  /\ pm_base' = pm_base % pm_mod
  /\ pc' = "pm_loop"
  /\ UNCHANGED <<stack, MOD, args, mainv, csv, pfv, pm_exp, pm_mod, ret_pm, histv>>

\* PmLoop with the squaring of line 59 left out
PmLoopNoSquare ==
  /\ pc = "pm_loop"
  /\ pm_exp > 0
  /\ pm_result' = IF pm_exp % 2 = 1
                    THEN MulMod(pm_result, pm_base, pm_mod)
                    ELSE pm_result
  /\ pm_exp' = pm_exp \div 2
  /\ UNCHANGED <<ctlv, MOD, args, mainv, csv, pfv, pm_base, pm_mod, ret_pm, histv>>

\* lines 55-59: one iteration of the while loop
PmLoop ==
  /\ pc = "pm_loop"
  /\ pm_exp > 0
  /\ pm_result' = IF pm_exp % 2 = 1
                    THEN MulMod(pm_result, pm_base, pm_mod)
                    ELSE pm_result
  /\ pm_exp' = pm_exp \div 2
  /\ pm_base' = MulMod(pm_base, pm_base, pm_mod)
  /\ UNCHANGED <<ctlv, MOD, args, mainv, csv, pfv, pm_mod, ret_pm, histv>>

\* line 60, reached when the loop condition fails
PmReturn ==
  /\ pc = "pm_loop"
  /\ ~(pm_exp > 0)
  /\ ret_pm' = pm_result
  /\ Return
  /\ UNCHANGED <<MOD, args, mainv, csv, pfv, pm_base, pm_exp, pm_mod, pm_result, histv>>

(***************************************************************************)
(* prime_factors(n), lines 34-47.                                          *)
(***************************************************************************)
\* PfEntry reusing the dict of the previous call instead of a fresh one
PfEntryStaleDict ==
  /\ pc = "pf_entry"
  /\ pf_d' = 2
  /\ pc' = "pf_outer"
  /\ UNCHANGED <<stack, MOD, args, mainv, csv, pf_n, pf_factors, ret_pf, pmv, histv>>

\* lines 38-39
PfEntry ==
  /\ pc = "pf_entry"
  /\ pf_factors' = <<>>
  /\ pf_d' = 2
  /\ pc' = "pf_outer"
  /\ UNCHANGED <<stack, MOD, args, mainv, csv, pf_n, ret_pf, pmv, histv>>

\* line 40: the test of the outer while loop
PfOuter ==
  /\ pc = "pf_outer"
  /\ pc' = IF pf_d * pf_d <= pf_n THEN "pf_inner" ELSE "pf_tail"
  /\ UNCHANGED <<stack, MOD, args, mainv, csv, pfv, pmv, histv>>

\* lines 41-44: one test of the inner while loop, with its body or the
\* d += 1 that follows the loop
PfInner ==
  /\ pc = "pf_inner"
  /\ IF pf_n % pf_d = 0
       THEN /\ pf_factors' = DictPut(pf_factors, pf_d, DictGet(pf_factors, pf_d, 0) + 1)
            /\ pf_n' = pf_n \div pf_d
            /\ UNCHANGED <<pc, pf_d>>
       ELSE /\ pf_d' = pf_d + 1
            /\ pc' = "pf_outer"
            /\ UNCHANGED <<pf_factors, pf_n>>
  /\ UNCHANGED <<stack, MOD, args, mainv, csv, ret_pf, pmv, histv>>

\* PfTail with the remaining value of lines 45-46 not recorded
PfTailDropsRemainder ==
  /\ pc = "pf_tail"
  /\ ret_pf' = pf_factors
  /\ Return
  /\ UNCHANGED <<MOD, args, mainv, csv, pf_n, pf_d, pf_factors, pmv, histv>>

\* lines 45-47
PfTail ==
  /\ pc = "pf_tail"
  /\ LET f == IF pf_n > 1
                THEN DictPut(pf_factors, pf_n, DictGet(pf_factors, pf_n, 0) + 1)
                ELSE pf_factors
     IN  pf_factors' = f /\ ret_pf' = f
  /\ Return
  /\ UNCHANGED <<MOD, args, mainv, csv, pf_n, pf_d, pmv, histv>>

(***************************************************************************)
(* count_sequences(n, y), lines 62-121.                                    *)
(***************************************************************************)
RECURSIVE DivisorCount(_, _)
\* lines 86-88: the product of (power + 1) over factors.values(), from the
\* i-th entry on
DivisorCount(f, i) ==
  IF i > Len(f) THEN 1 ELSE (f[i][2] + 1) * DivisorCount(f, i + 1)

\* Max1 taking one choice too few from the reduced prime
Max1Less(power) == IF power > 2 THEN power - 1 ELSE 1

\* max(1, power)
Max1(power) == IF power > 1 THEN power ELSE 1

RECURSIVE ReducedDivisorCount(_, _, _, _)
\* lines 100-111: the product over i in range(num_primes), from index i on
\* (i counts from 0 as in the source; primes[i] is ps[i + 1])
ReducedDivisorCount(f, ps, m, i) ==
  IF i >= Len(ps) THEN 1
  ELSE LET power == DictGet(f, ps[i + 1], 0)
       IN  (IF BitSet(m, i) THEN Max1(power) ELSE power + 1)
             * ReducedDivisorCount(f, ps, m, i + 1)

\* lines 72-76
CsEntry ==
  /\ pc = "cs_entry"
  /\ cs_calls' = cs_calls + 1
  /\ pm_calls' = 0
  /\ iters' = 0
  /\ IF cs_y = 1
       THEN /\ ret_cs' = (IF cs_n >= 1 THEN 1 ELSE 0)
            /\ Return
            /\ UNCHANGED pf_n
       ELSE /\ pf_n' = cs_y
            /\ pc' = "pf_entry"
            /\ stack' = <<"cs_factored">> \o stack
            /\ UNCHANGED ret_cs
  /\ UNCHANGED <<MOD, args, mainv, cs_n, cs_y, factors, primes, num_primes,
                 divisor_count, total_sequences, result, mask,
                 reduced_divisor_count, sequences, pf_d, pf_factors, ret_pf, pmv>>

\* CsFactored without the guard of lines 82-83
CsFactoredNoCap ==
  /\ pc = "cs_factored"
  /\ factors' = ret_pf
  /\ primes' = DictKeys(ret_pf)
  /\ num_primes' = Len(ret_pf)
  /\ divisor_count' = DivisorCount(ret_pf, 1)
  /\ pm_base' = DivisorCount(ret_pf, 1)
  /\ pm_exp' = cs_n
  /\ pm_mod' = MOD
  /\ pm_calls' = pm_calls + 1
  /\ pc' = "pm_entry"
  /\ stack' = <<"cs_total">> \o stack
  /\ UNCHANGED <<MOD, args, mainv, cs_n, cs_y, total_sequences, result, mask,
                 reduced_divisor_count, sequences, ret_cs, pfv, pm_result,
                 ret_pm, cs_calls, iters>>

\* lines 76-91: prime_factors has returned
CsFactored ==
  /\ pc = "cs_factored"
  /\ factors' = ret_pf
  /\ primes' = DictKeys(ret_pf)
  /\ num_primes' = Len(ret_pf)
  /\ IF Len(ret_pf) > MaxPrimes
       THEN /\ ret_cs' = 0
            /\ Return
            /\ UNCHANGED <<divisor_count, pm_base, pm_exp, pm_mod, pm_calls>>
       ELSE /\ divisor_count' = DivisorCount(ret_pf, 1)
            /\ pm_base' = DivisorCount(ret_pf, 1)
            /\ pm_exp' = cs_n
            /\ pm_mod' = MOD
            /\ pm_calls' = pm_calls + 1
            /\ pc' = "pm_entry"
            /\ stack' = <<"cs_total">> \o stack
            /\ UNCHANGED ret_cs
  /\ UNCHANGED <<MOD, args, mainv, cs_n, cs_y, total_sequences, result, mask,
                 reduced_divisor_count, sequences, pfv, pm_result, ret_pm,
                 cs_calls, iters>>

\* lines 91-98: power_mod has returned; the range of the for loop starts at 1
CsTotal ==
  /\ pc = "cs_total"
  /\ total_sequences' = ret_pm
  /\ result' = ret_pm
  /\ mask' = 1
  /\ pc' = "cs_for"
  /\ UNCHANGED <<stack, MOD, args, mainv, cs_n, cs_y, factors, primes, num_primes,
                 divisor_count, reduced_divisor_count, sequences, ret_cs,
                 pfv, pmv, histv>>

\* lines 98-113: the next mask of the range, up to the call of power_mod
CsFor ==
  /\ pc = "cs_for"
  /\ mask < 2 ^ num_primes
  /\ iters' = iters + 1
  /\ reduced_divisor_count' = ReducedDivisorCount(factors, primes, mask, 0)
  /\ pm_base' = ReducedDivisorCount(factors, primes, mask, 0)
  /\ pm_exp' = cs_n
  /\ pm_mod' = MOD
  /\ pm_calls' = pm_calls + 1
  /\ pc' = "pm_entry"
  /\ stack' = <<"cs_apply">> \o stack
  /\ UNCHANGED <<MOD, args, mainv, cs_n, cs_y, factors, primes, num_primes,
                 divisor_count, total_sequences, result, mask, sequences,
                 ret_cs, pfv, pm_result, ret_pm, cs_calls>>

\* CsApply with the two signs of lines 116-119 exchanged
CsApplyFlipped ==
  /\ pc = "cs_apply"
  /\ sequences' = ret_pm
  /\ result' = IF PopCount(mask) % 2 = 1
                 THEN (result + ret_pm) % MOD
                 ELSE (result - ret_pm + MOD) % MOD
  /\ mask' = mask + 1
  /\ pc' = "cs_for"
  /\ UNCHANGED <<stack, MOD, args, mainv, cs_n, cs_y, factors, primes, num_primes,
                 divisor_count, total_sequences, reduced_divisor_count,
                 ret_cs, pfv, pmv, histv>>

\* CsApply with the reduction of line 117 left out
CsApplyNoReduce ==
  /\ pc = "cs_apply"
  /\ sequences' = ret_pm
  /\ result' = IF PopCount(mask) % 2 = 1
                 THEN result - ret_pm
                 ELSE (result + ret_pm) % MOD
  /\ mask' = mask + 1
  /\ pc' = "cs_for"
  /\ UNCHANGED <<stack, MOD, args, mainv, cs_n, cs_y, factors, primes, num_primes,
                 divisor_count, total_sequences, reduced_divisor_count,
                 ret_cs, pfv, pmv, histv>>

\* lines 113-119: power_mod has returned; the signed accumulation
CsApply ==
  /\ pc = "cs_apply"
  /\ sequences' = ret_pm
  /\ result' = IF PopCount(mask) % 2 = 1
                 THEN (result - ret_pm + MOD) % MOD
                 ELSE (result + ret_pm) % MOD
  /\ mask' = mask + 1
  /\ pc' = "cs_for"
  /\ UNCHANGED <<stack, MOD, args, mainv, cs_n, cs_y, factors, primes, num_primes,
                 divisor_count, total_sequences, reduced_divisor_count,
                 ret_cs, pfv, pmv, histv>>

\* line 121, reached when the range is exhausted
CsReturn ==
  /\ pc = "cs_for"
  /\ ~(mask < 2 ^ num_primes)
  /\ ret_cs' = result
  /\ Return
  /\ UNCHANGED <<MOD, args, mainv, cs_n, cs_y, factors, primes, num_primes,
                 divisor_count, total_sequences, result, mask,
                 reduced_divisor_count, sequences, pfv, pmv, histv>>

(***************************************************************************)
(* main(), lines 123-139.                                                  *)
(***************************************************************************)
\* InBounds with the upper limits excluded
InBoundsExclusive(n, y) == 1 <= n /\ n < NLimit /\ 1 <= y /\ y < YLimit

\* line 134
InBounds(n, y) == 1 <= n /\ n <= NLimit /\ 1 <= y /\ y <= YLimit

\* line 128
MainReadT ==
  /\ pc = "main"
  /\ T' = input[rd + 1][1]
  /\ rd' = rd + 1
  /\ idx' = 0
  /\ pc' = "main_for"
  /\ UNCHANGED <<stack, MOD, args, input, main_n, main_y, main_result, out,
                 csv, pfv, pmv, histv>>

\* lines 130-136: an iteration whose pair fails the validation
MainInvalid ==
  /\ pc = "main_for"
  /\ idx < T
  /\ ~InBounds(input[rd + 1][1], input[rd + 1][2])
  /\ main_n' = input[rd + 1][1]
  /\ main_y' = input[rd + 1][2]
  /\ rd' = rd + 1
  /\ idx' = idx + 1
  /\ cs_calls' = 0
  /\ out' = Append(out, 0)
  /\ UNCHANGED <<ctlv, MOD, args, input, T, main_result, csv, pfv, pmv, pm_calls, iters>>

\* lines 130-138: an iteration whose pair passes, up to the call
MainCall ==
  /\ pc = "main_for"
  /\ idx < T
  /\ InBounds(input[rd + 1][1], input[rd + 1][2])
  /\ main_n' = input[rd + 1][1]
  /\ main_y' = input[rd + 1][2]
  /\ rd' = rd + 1
  /\ idx' = idx + 1
  /\ cs_calls' = 0
  /\ cs_n' = input[rd + 1][1]
  /\ cs_y' = input[rd + 1][2]
  /\ pc' = "cs_entry"
  /\ stack' = <<"main_print">> \o stack
  /\ UNCHANGED <<MOD, args, input, T, main_result, out, factors, primes, num_primes,
                 divisor_count, total_sequences, result, mask,
                 reduced_divisor_count, sequences, ret_cs, pfv, pmv,
                 pm_calls, iters>>

\* MainPrint putting the new line before the earlier ones
MainPrintFirst ==
  /\ pc = "main_print"
  /\ main_result' = ret_cs
  /\ out' = <<ret_cs>> \o out
  /\ pc' = "main_for"
  /\ UNCHANGED <<stack, MOD, args, input, rd, T, idx, main_n, main_y, csv, pfv,
                 pmv, histv>>

\* lines 138-139: count_sequences has returned
MainPrint ==
  /\ pc = "main_print"
  /\ main_result' = ret_cs
  /\ out' = Append(out, ret_cs)
  /\ pc' = "main_for"
  /\ UNCHANGED <<stack, MOD, args, input, rd, T, idx, main_n, main_y, csv, pfv,
                 pmv, histv>>

\* line 130, reached when the range is exhausted: main returns
MainExit ==
  /\ pc = "main_for"
  /\ ~(idx < T)
  /\ Return
  /\ UNCHANGED <<MOD, args, mainv, csv, pfv, pmv, histv>>

(***************************************************************************)
(* Initial states.  A local that has not been assigned yet holds 0 or the  *)
(* empty sequence; no statement reads it before assigning it.              *)
(***************************************************************************)
MainIdle ==
  /\ input = <<>> /\ rd = 0 /\ T = 0 /\ idx = 0
  /\ main_n = 0 /\ main_y = 0 /\ main_result = 0 /\ out = <<>>

CsLocalsIdle ==
  /\ factors = <<>> /\ primes = <<>> /\ num_primes = 0 /\ divisor_count = 0
  /\ total_sequences = 0 /\ result = 0 /\ mask = 0
  /\ reduced_divisor_count = 0 /\ sequences = 0 /\ ret_cs = 0

PfIdle == pf_n = 0 /\ pf_d = 0 /\ pf_factors = <<>> /\ ret_pf = <<>>

PmLocalsIdle == pm_result = 0 /\ ret_pm = 0

HistIdle == cs_calls = 0 /\ pm_calls = 0 /\ iters = 0

\* ---- main on a well-formed input: the line T, then T lines n y ----
MaxT == 3

\* the docstring's two test cases, y = 1, and pairs outside the bounds
Pairs ==
  { <<2, 6>>, <<3, 9>>, <<1, 1>>, <<1, 12>>,
    <<0, 6>>, <<NLimit + 1, 2>>, <<2, 0>>, <<2, YLimit + 1>> }

Inputs(pairs) ==
  UNION { { <<<<t>>>> \o c : c \in [1..t -> pairs] } : t \in 0..MaxT }

Init ==
  /\ pc = "main" /\ stack = <<"halt">> /\ MOD = ModValue
  /\ input \in Inputs(Pairs) /\ args = <<>>
  /\ rd = 0 /\ T = 0 /\ idx = 0
  /\ main_n = 0 /\ main_y = 0 /\ main_result = 0 /\ out = <<>>
  /\ cs_n = 0 /\ cs_y = 0 /\ CsLocalsIdle
  /\ PfIdle
  /\ pm_base = 0 /\ pm_exp = 0 /\ pm_mod = 0 /\ PmLocalsIdle
  /\ HistIdle

\* pairs on and next to the limits of the validation
EdgePairs ==
  { <<1, 1>>, <<NLimit, YLimit>>, <<NLimit, 1>>, <<1, YLimit>>,
    <<NLimit + 1, 1>>, <<1, YLimit + 1>>, <<0, 1>>, <<1, 0>> }

InitBounds ==
  /\ pc = "main" /\ stack = <<"halt">> /\ MOD = ModValue
  /\ input \in Inputs(EdgePairs) /\ args = <<>>
  /\ rd = 0 /\ T = 0 /\ idx = 0
  /\ main_n = 0 /\ main_y = 0 /\ main_result = 0 /\ out = <<>>
  /\ cs_n = 0 /\ cs_y = 0 /\ CsLocalsIdle
  /\ PfIdle
  /\ pm_base = 0 /\ pm_exp = 0 /\ pm_mod = 0 /\ PmLocalsIdle
  /\ HistIdle

\* ---- power_mod called on its own ----
MaxBase == 6
MaxExp  == 10
MaxMod  == 6

PowBases == 0..MaxBase \cup {ModValue - 1, ModValue, ModValue + 1}
PowMods  == 2..MaxMod \cup {ModValue}

InitPow ==
  /\ pc = "pm_entry" /\ stack = <<"halt">> /\ MOD = ModValue
  /\ MainIdle
  /\ cs_n = 0 /\ cs_y = 0 /\ CsLocalsIdle
  /\ PfIdle
  /\ pm_base \in PowBases /\ pm_exp \in 0..MaxExp /\ pm_mod \in PowMods
  /\ PmLocalsIdle
  /\ HistIdle
  /\ args = <<pm_base, pm_exp, pm_mod>>

\* ---- prime_factors called on its own ----
MaxFactorN == 100

\* 2^29, the product of the primes up to 23, and the driver's limit 10^9
LargeN == {536870912, 223092870, YLimit}

InitPF ==
  /\ pc = "pf_entry" /\ stack = <<"halt">> /\ MOD = ModValue
  /\ MainIdle
  /\ cs_n = 0 /\ cs_y = 0 /\ CsLocalsIdle
  /\ pf_n \in 1..MaxFactorN \cup LargeN
  /\ pf_d = 0 /\ pf_factors = <<>> /\ ret_pf = <<>>
  /\ pm_base = 0 /\ pm_exp = 0 /\ pm_mod = 0 /\ PmLocalsIdle
  /\ HistIdle
  /\ args = <<pf_n>>

\* ---- count_sequences called on its own ----
MaxN  == 3
MaxY  == 12
\* a length for which (number of divisors)^n exceeds MOD
WrapN == 13
\* a number of distinct primes below the cap whose product exceeds 32 bits
ManyPrimes == 10

FirstPrimes ==
  <<2, 3, 5, 7, 11, 13, 17, 19, 23, 29, 31, 37, 41, 43, 47, 53, 59, 61, 67,
    71, 73, 79>>

\* prime_factors' result for the product of the first k primes
SquareFree(k) == [i \in 1..k |-> <<FirstPrimes[i], 1>>]

\* A y beyond TLC's 32-bit integers is not represented: cs_y holds this
\* marker, and the run starts where prime_factors(y) has just returned (line
\* 76), after which count_sequences does not read y.
BigY == 0 - 1

CsNs == 1..MaxN \cup {WrapN}
CsYs == 1..MaxY \cup {536870912, 223092870}

InitCS ==
  /\ stack = <<"halt">> /\ MOD = ModValue
  /\ MainIdle
  /\ cs_n \in CsNs
  /\ CsLocalsIdle
  /\ pf_n = 0 /\ pf_d = 0 /\ pf_factors = <<>>
  /\ pm_base = 0 /\ pm_exp = 0 /\ pm_mod = 0 /\ PmLocalsIdle
  /\ pm_calls = 0 /\ iters = 0
  /\ \/ /\ pc = "cs_entry" /\ cs_y \in CsYs
        /\ ret_pf = <<>> /\ cs_calls = 0
     \/ /\ pc = "cs_factored" /\ cs_y = BigY
        /\ ret_pf \in {SquareFree(ManyPrimes), SquareFree(MaxPrimes + 1)}
        /\ cs_calls = 1
  /\ args = <<cs_n, cs_y>>

(***************************************************************************)
(* Next-state relations and specifications.                                *)
(***************************************************************************)
NextPow == PmEntry \/ PmLoop \/ PmReturn

NextPF == PfEntry \/ PfOuter \/ PfInner \/ PfTail

NextCS ==
  \/ CsEntry \/ CsFactored \/ CsTotal \/ CsFor \/ CsApply \/ CsReturn
  \/ NextPF \/ NextPow

Next ==
  \/ MainReadT \/ MainInvalid \/ MainCall \/ MainPrint \/ MainExit
  \/ NextCS

Spec       == Init /\ [][Next]_vars
FairSpec   == Init /\ [][Next]_vars /\ WF_vars(Next)
SpecBounds == InitBounds /\ [][Next]_vars
SpecCS     == InitCS /\ [][NextCS]_vars
SpecPF     == InitPF /\ [][NextPF]_vars
FairSpecPF == InitPF /\ [][NextPF]_vars /\ WF_vars(NextPF)
SpecPow    == InitPow /\ [][NextPow]_vars
FairSpecPow == InitPow /\ [][NextPow]_vars /\ WF_vars(NextPow)

(***************************************************************************)
(* Reference definitions used by the properties.                           *)
(***************************************************************************)
Halted == pc = "halt"

RECURSIVE Power(_, _, _)
\* b^e mod m by e successive multiplications
Power(b, e, m) == IF e = 0 THEN 1 % m ELSE MulMod(Power(b, e - 1, m), b % m, m)

IsPrime(p) == p > 1 /\ \A d \in 2..(p - 1) : p % d # 0

RECURSIVE DictProduct(_, _)
\* the product of key^value over the entries of f from the i-th on
DictProduct(f, i) ==
  IF i > Len(f) THEN 1 ELSE (f[i][1] ^ f[i][2]) * DictProduct(f, i + 1)

(***************************************************************************)
(* C6: for base >= 0, exponent >= 0 and modulus >= 2, power_mod terminates *)
(* and returns base^exponent mod modulus; exponent 0 gives 1 for every     *)
(* base, also one divisible by the modulus; power_mod(2, 10, MOD) = 1024.  *)
(***************************************************************************)
PowerModResult ==
  Halted =>
    /\ ret_pm = Power(args[1], args[2], args[3])
    /\ ret_pm \in 0..(args[3] - 1)
    /\ args[2] = 0 => ret_pm = 1
    /\ args = <<2, 10, ModValue>> => ret_pm = 1024

\* C6: the result is base^exponent mod modulus, and power_mod returns
PowerModTotal == []PowerModResult /\ <>Halted

PowerModWitness ==
  Halted /\ args = <<2, 10, ModValue>> /\ ret_pm = 1024

(***************************************************************************)
(* C7: for n >= 1, prime_factors terminates and returns a mapping whose    *)
(* keys are pairwise distinct primes with exponents >= 1 and whose product *)
(* of key^exponent is n; it is empty when n = 1; a value > 1 left after    *)
(* the trial divisions is prime and is recorded with exponent 1.           *)
(***************************************************************************)
PrimeFactorsResult ==
  Halted =>
    /\ \A i, j \in 1..Len(ret_pf) : ret_pf[i][1] = ret_pf[j][1] => i = j
    /\ \A i \in 1..Len(ret_pf) : IsPrime(ret_pf[i][1]) /\ ret_pf[i][2] >= 1
    /\ DictProduct(ret_pf, 1) = args[1]
    /\ args[1] = 1 => ret_pf = <<>>
    /\ pf_n > 1 => IsPrime(pf_n) /\ DictGet(ret_pf, pf_n, 0) = 1

\* C7: the result is the prime factorisation of n, and prime_factors returns
PrimeFactorsTotal == []PrimeFactorsResult /\ <>Halted

PrimeFactorsWitness ==
  Halted /\ pf_n > 1 /\ Len(ret_pf) >= 2 /\ DictGet(ret_pf, pf_n, 0) = 1

(***************************************************************************)
(* Counting sequences with a given least common multiple, independently    *)
(* of the inclusion-exclusion sum of count_sequences.                      *)
(***************************************************************************)
Divisors(y) == {d \in 1..y : y % d = 0}

RECURSIVE Gcd(_, _)
Gcd(a, b) == IF b = 0 THEN a ELSE Gcd(b, a % b)

Lcm(a, b) == (a \div Gcd(a, b)) * b

RECURSIVE LcmOf(_, _)
\* the least common multiple of s[i], ..., s[Len(s)]
LcmOf(s, i) == IF i > Len(s) THEN 1 ELSE Lcm(s[i], LcmOf(s, i + 1))

\* the number of length-n sequences of divisors of y whose lcm is y, by
\* enumeration
BruteCount(n, y) ==
  Cardinality({s \in [1..n -> Divisors(y)] : LcmOf(s, 1) = y})

RECURSIVE Valuation(_, _)
\* the exponent of p in y
Valuation(p, y) == IF y % p = 0 THEN 1 + Valuation(p, y \div p) ELSE 0

RECURSIVE TopWalk(_, _, _, _)
\* Sequences over the exponents 0..e, extended by k further elements: a
\* counts (mod ModValue) those that already contain e, b those that do not.
TopWalk(k, e, a, b) ==
  IF k = 0 THEN a
  ELSE TopWalk(k - 1, e, (MulMod(a, e + 1, ModValue) + b) % ModValue,
               MulMod(b, e, ModValue))

\* the number of length-n sequences over 0..e (e >= 1) with maximum e
TopCount(n, e) == TopWalk(n, e, 0, 1)

RECURSIVE ProductCount(_, _, _)
\* the count for a y given by its exponents: the lcm is y exactly when, for
\* each prime, the exponents of the elements have the maximum e_p
ProductCount(n, exps, i) ==
  IF i > Len(exps) THEN 1
  ELSE MulMod(TopCount(n, exps[i]), ProductCount(n, exps, i + 1), ModValue)

\* the primes of y among FirstPrimes, as indices
PrimeIndices(y) == {i \in 1..Len(FirstPrimes) : y % FirstPrimes[i] = 0}

RECURSIVE ExponentsFrom(_, _)
ExponentsFrom(y, i) ==
  IF i > Len(FirstPrimes) THEN <<>>
  ELSE IF y % FirstPrimes[i] = 0
         THEN <<Valuation(FirstPrimes[i], y)>> \o ExponentsFrom(y, i + 1)
         ELSE ExponentsFrom(y, i + 1)

\* The query count_sequences was started with: its exponents and its number
\* of distinct primes (from the given factorisation when y is not
\* represented).
QueryExponents ==
  IF args[2] = BigY THEN [i \in 1..Len(ret_pf) |-> ret_pf[i][2]]
  ELSE ExponentsFrom(args[2], 1)

QueryPrimes == Len(QueryExponents)

QuerySmall == args[1] <= MaxN /\ args[2] # BigY /\ args[2] <= MaxY

CountIsExact ==
  /\ ret_cs = ProductCount(args[1], QueryExponents, 1)
  /\ QuerySmall => ret_cs = BruteCount(args[1], args[2]) % ModValue
  /\ args = <<2, 6>> => ret_cs = 9
  /\ args = <<3, 9>> => ret_cs = 19

(***************************************************************************)
(* C1: for n >= 1 and y >= 1, count_sequences(n, y) is the number of       *)
(* length-n sequences of positive integers with least common multiple y,   *)
(* modulo 1,000,000,007; count_sequences(2, 6) = 9 and                     *)
(* count_sequences(3, 9) = 19.  Stated for every y it fails where the cap  *)
(* on distinct primes returns 0; it holds for y with at most 20 of them.   *)
(***************************************************************************)
CountSequencesExact == (Halted /\ QueryPrimes <= MaxPrimes) => CountIsExact

CountSequencesExactEveryY == Halted => CountIsExact

CountSequencesWitness ==
  Halted /\ args = <<3, 12>> /\ ret_cs = BruteCount(3, 12) /\ ret_cs > 1

(***************************************************************************)
(* C5: count_sequences(1, y) = 1 for every y >= 1.  Stated for every       *)
(* number of distinct primes it fails above the cap, where the result is   *)
(* 0; it holds for y with at most 20 distinct primes.                      *)
(***************************************************************************)
LengthOneIsOne ==
  (Halted /\ args[1] = 1 /\ QueryPrimes <= MaxPrimes) => ret_cs = 1

LengthOneIsOneEveryY == (Halted /\ args[1] = 1) => ret_cs = 1

LengthOneWitness ==
  Halted /\ args[1] = 1 /\ QueryPrimes = ManyPrimes /\ ret_cs = 1

(***************************************************************************)
(* C8: the running value result of count_sequences lies in 0..MOD-1 after  *)
(* its initialisation and after every iteration of the mask loop, on the   *)
(* subtracting and on the adding branch, and so does the returned value.   *)
(***************************************************************************)
ResultInRange ==
  /\ result \in 0..(MOD - 1)
  /\ total_sequences \in 0..(MOD - 1)
  /\ sequences \in 0..(MOD - 1)
  /\ ret_cs \in 0..(MOD - 1)
  /\ pc = "cs_apply" => result - ret_pm + MOD > 0

\* an iteration has just subtracted a term larger than the running value
ResultWrapWitness ==
  /\ pc = "cs_for" /\ mask > 1 /\ PopCount(mask - 1) % 2 = 1
  /\ result + sequences >= MOD

(***************************************************************************)
(* C10: with y > 1 and more than 20 distinct primes count_sequences        *)
(* returns 0 without calling power_mod or entering the mask loop; with at  *)
(* most 20 the loop runs the masks 1 .. 2^k - 1 once each, in order; for   *)
(* 1 <= y <= 10^9 the capped branch is not taken.                          *)
(***************************************************************************)
SafetyCap ==
  /\ num_primes > MaxPrimes =>
       Halted /\ ret_cs = 0 /\ pm_calls = 0 /\ iters = 0
  /\ pc = "cs_apply" => mask = iters /\ mask \in 1..(2 ^ num_primes - 1)
  /\ (Halted /\ args[2] # 1 /\ num_primes <= MaxPrimes) =>
       /\ num_primes = QueryPrimes
       /\ iters = 2 ^ num_primes - 1
       /\ mask = 2 ^ num_primes
       /\ pm_calls = 2 ^ num_primes
  /\ (Halted /\ args[2] \in 1..YLimit) => num_primes <= MaxPrimes

SafetyCapWitness ==
  Halted /\ num_primes = MaxPrimes + 1 /\ ret_cs = 0 /\ pm_calls = 0 /\ iters = 0

(***************************************************************************)
(* The batch driver.                                                       *)
(***************************************************************************)
\* the i-th test case of the input
Case(i) == input[i + 1]

\* the bounds 1 <= n <= 10^5 and 1 <= y <= 10^9 of a test case
Valid(c) == c[1] \in 1..100000 /\ c[2] \in 1..1000000000

\* the line to print for a test case
Answer(c) == IF Valid(c) THEN BruteCount(c[1], c[2]) % ModValue ELSE 0

(***************************************************************************)
(* C2: on a well-formed input main terminates after printing exactly T     *)
(* lines; every line printed is the answer of the next test case not yet   *)
(* printed, so nothing is reordered, skipped or duplicated; a test case is *)
(* read only when all earlier ones have been printed.                      *)
(***************************************************************************)
PrintsNextAnswer ==
  out' # out => out' = Append(out, Answer(Case(Len(out) + 1)))

ReadsAfterPrinting == (rd' # rd /\ rd >= 1) => (rd' = rd + 1 /\ Len(out) = rd - 1)

\* C2: the lines are printed in input order, one per test case, and main
\* returns after the T-th
OrderedOutput ==
  /\ [][PrintsNextAnswer /\ ReadsAfterPrinting]_vars
  /\ [](Halted => (T = input[1][1] /\ Len(out) = T /\ rd = T + 1))
  /\ <>Halted

OrderedOutputWitness ==
  Halted /\ input = <<<<2>>, <<2, 6>>, <<3, 9>>>> /\ out = <<9, 19>>

(***************************************************************************)
(* C3: for a test case outside the bounds main prints 0 and does not call  *)
(* count_sequences; it goes on with the remaining test cases; for a test   *)
(* case within the bounds count_sequences is called exactly once.          *)
(***************************************************************************)
PrintAfterValidation ==
  out' # out =>
    LET c == Case(Len(out) + 1)
    IN  /\ c = <<main_n', main_y'>>
        /\ IF Valid(c)
             THEN pc = "main_print" /\ cs_calls = 1 /\ cs_calls' = 1
             ELSE out' = Append(out, 0) /\ cs_calls' = 0

\* C3: 0 without a call outside the bounds, exactly one call within them
Validation ==
  /\ [][PrintAfterValidation]_vars
  /\ [](pc = "cs_entry" => Valid(<<main_n, main_y>>) /\ cs_calls = 0)
  /\ [](Halted => Len(out) = T)

ValidationWitness ==
  /\ Halted
  /\ input = <<<<2>>, <<NLimit + 1, 1>>, <<NLimit, YLimit>>>>
  /\ Len(out) = 2 /\ out[1] = 0

====
